---- MODULE Spec2Model ----
(***************************************************************************)
(* A model of app/server.go (the Req/Res version, lines 182-420): the      *)
(* accept loop of main, one goroutine per accepted connection running      *)
(* handleConnection, the request parser, the response serializer and the   *)
(* file handlers over a small file system.                                 *)
(*                                                                         *)
(* A Go string or []byte is a sequence of bytes; a byte is written as a    *)
(* one-character string, with CR, LF and NUL for the three control bytes.  *)
(***************************************************************************)
EXTENDS Naturals, Sequences, FiniteSets, TLC

\* ------------------------------------------------------------------ bytes

CR == "CR"
LF == "LF"
NUL == "NUL"
SP == " "
CRLF == <<CR, LF>>
CRLFCRLF == <<CR, LF, CR, LF>>

Upper == <<"A","B","C","D","E","F","G","H","I","J","K","L","M",
           "N","O","P","Q","R","S","T","U","V","W","X","Y","Z">>
Lower == <<"a","b","c","d","e","f","g","h","i","j","k","l","m",
           "n","o","p","q","r","s","t","u","v","w","x","y","z">>

\* ------------------------------------------------- package strings, path

\* strings.Index: the position of the first occurrence of sub in s, 0 if none
RECURSIVE IndexFrom(_, _, _)
IndexFrom(s, sub, i) ==
    IF i + Len(sub) - 1 > Len(s) THEN 0
    ELSE IF \A k \in 1..Len(sub) : s[i + k - 1] = sub[k] THEN i
    ELSE IndexFrom(s, sub, i + 1)

Index(s, sub) == IndexFrom(s, sub, 1)

Contains(s, sub) == Index(s, sub) > 0

HasPrefix(s, p) == Len(s) >= Len(p) /\ SubSeq(s, 1, Len(p)) = p

HasSuffix(s, p) == Len(s) >= Len(p) /\ SubSeq(s, Len(s) - Len(p) + 1, Len(s)) = p

\* strings.CutPrefix(s, p): (s without p, true) or (s, false)
CutPrefix(s, p) ==
    IF HasPrefix(s, p) THEN [rest |-> SubSeq(s, Len(p) + 1, Len(s)), ok |-> TRUE]
    ELSE [rest |-> s, ok |-> FALSE]

\* strings.CutSuffix(s, p): (s without p, true) or (s, false)
CutSuffix(s, p) ==
    IF HasSuffix(s, p) THEN [rest |-> SubSeq(s, 1, Len(s) - Len(p)), ok |-> TRUE]
    ELSE [rest |-> s, ok |-> FALSE]

\* strings.Cut(s, sep): around the first occurrence of sep
Cut(s, sep) ==
    LET i == Index(s, sep)
    IN IF i = 0 THEN [before |-> s, after |-> <<>>, found |-> FALSE]
       ELSE [before |-> SubSeq(s, 1, i - 1),
             after |-> SubSeq(s, i + Len(sep), Len(s)),
             found |-> TRUE]

\* strings.SplitN(s, sep, 2): one element when sep does not occur, else two
SplitN2(s, sep) ==
    LET c == Cut(s, sep)
    IN IF c.found THEN <<c.before, c.after>> ELSE <<s>>

\* strings.Split(s, sep), sep non-empty: all the pieces
RECURSIVE Split(_, _)
Split(s, sep) ==
    LET c == Cut(s, sep)
    IN IF c.found THEN <<c.before>> \o Split(c.after, sep) ELSE <<s>>

ToLowerByte(ch) ==
    IF \E i \in 1..Len(Upper) : Upper[i] = ch
    THEN Lower[CHOOSE i \in 1..Len(Upper) : Upper[i] = ch]
    ELSE ch

ToLower(s) == [i \in 1..Len(s) |-> ToLowerByte(s[i])]

\* strings.Trim(s, " ")
RECURSIVE TrimLeft(_)
TrimLeft(s) == IF s # <<>> /\ Head(s) = SP THEN TrimLeft(Tail(s)) ELSE s

RECURSIVE TrimRight(_)
TrimRight(s) ==
    IF s # <<>> /\ s[Len(s)] = SP THEN TrimRight(SubSeq(s, 1, Len(s) - 1)) ELSE s

Trim(s) == TrimRight(TrimLeft(s))

RECURSIVE JoinWith(_, _)
JoinWith(parts, sep) ==
    IF parts = <<>> THEN <<>>
    ELSE IF Len(parts) = 1 THEN parts[1]
    ELSE parts[1] \o sep \o JoinWith(Tail(parts), sep)

\* path.Clean: the lexical processing of ".", ".." and empty elements
RECURSIVE CleanSegs(_, _, _)
CleanSegs(segs, stack, rooted) ==
    IF segs = <<>> THEN stack
    ELSE LET s == Head(segs)
         IN IF s = <<>> \/ s = <<".">> THEN CleanSegs(Tail(segs), stack, rooted)
            ELSE IF s = <<".", ".">>
            THEN IF stack # <<>> /\ stack[Len(stack)] # <<".", ".">>
                 THEN CleanSegs(Tail(segs), SubSeq(stack, 1, Len(stack) - 1), rooted)
                 ELSE IF rooted THEN CleanSegs(Tail(segs), stack, rooted)
                 ELSE CleanSegs(Tail(segs), Append(stack, s), rooted)
            ELSE CleanSegs(Tail(segs), Append(stack, s), rooted)

Clean(p) ==
    LET rooted == p # <<>> /\ Head(p) = "/"
        body == JoinWith(CleanSegs(Split(p, <<"/">>), <<>>, rooted), <<"/">>)
        out == IF rooted THEN <<"/">> \o body ELSE body
    IN IF out = <<>> THEN <<".">> ELSE out

\* path.Join of two elements: empty elements are ignored, the rest joined
\* with "/" and cleaned; no non-empty element gives ""
PathJoin(a, b) ==
    IF a = <<>> /\ b = <<>> THEN <<>>
    ELSE IF a = <<>> THEN Clean(b)
    ELSE IF b = <<>> THEN Clean(a)
    ELSE Clean(a \o <<"/">> \o b)

\* ------------------------------------------------------------ the parser

HTTP11 == <<"H","T","T","P","/","1",".","1">>

\* errors.New("Only HTTP/1.1 is supported").Error()
ErrOnlyHTTP11 ==
    <<"O","n","l","y"," ">> \o HTTP11 \o
    <<" ","i","s"," ","s","u","p","p","o","r","t","e","d">>

\* The text of Go's runtime panics, kept to tell the faults apart
PanicIndex == "index out of range"
PanicNil == "nil pointer dereference"

\* parseFirstLine: kind "ok" (method, path), "err" (the error), or "panic"
\* (b[1] with len(b) = 1)
parseFirstLine(line) ==
    LET c == CutSuffix(line, HTTP11)
        b == Split(c.rest, <<SP>>)
    IN IF ~c.ok
       THEN [kind |-> "err", method |-> <<>>, path |-> <<>>, err |-> ErrOnlyHTTP11]
       ELSE IF Len(b) < 2
       THEN [kind |-> "panic", method |-> <<>>, path |-> <<>>, err |-> <<>>]
       ELSE [kind |-> "ok", method |-> b[1], path |-> b[2], err |-> <<>>]

\* parseHeaders: a map from lowercased, trimmed name to lowercased, trimmed
\* value; a later line overwrites an earlier one of the same name
RECURSIVE HeadersOf(_, _)
HeadersOf(lines, acc) ==
    IF lines = <<>> THEN acc
    ELSE LET c == Cut(Head(lines), <<":">>)
         IN IF c.found
            THEN HeadersOf(Tail(lines),
                           (ToLower(Trim(c.before)) :> ToLower(Trim(c.after))) @@ acc)
            ELSE HeadersOf(Tail(lines), acc)

NoHeaders == [k \in {} |-> <<>>]

parseHeaders(headersRaw) == HeadersOf(Split(headersRaw, CRLF), NoHeaders)

\* req.Headers[k]: the zero value "" for an absent key
HeaderGet(h, k) == IF k \in DOMAIN h THEN h[k] ELSE <<>>

\* The *Req that parseRequest returns with an error: nil
NilReq == [nil |-> TRUE, Method |-> <<>>, Path |-> <<>>, Headers |-> NoHeaders,
           Body |-> <<>>]

\* parseRequest: kind "ok" (req), "err" (req = nil, err), or "panic" when
\* split2[1] or split[1] is out of range
parseRequest(req) ==
    LET split == SplitN2(req, CRLFCRLF)
        split2 == SplitN2(split[1], CRLF)
        fl == parseFirstLine(split2[1])
    IN IF fl.kind = "panic"
       THEN [kind |-> "panic", req |-> NilReq, err |-> <<>>]
       ELSE IF fl.kind = "err"
       THEN [kind |-> "err", req |-> NilReq, err |-> fl.err]
       ELSE IF Len(split2) < 2 \/ Len(split) < 2
       THEN [kind |-> "panic", req |-> NilReq, err |-> <<>>]
       ELSE [kind |-> "ok",
             req |-> [nil |-> FALSE, Method |-> fl.method, Path |-> fl.path,
                      Headers |-> parseHeaders(split2[2]), Body |-> split[2]],
             err |-> <<>>]

\* ------------------------------------------------------- the serializer

\* type Res: Headers is a list of (name, value) in the map's iteration order
\* (no Res of this program sets Headers: the list is empty)
NewRes(status, ctype, body) ==
    [Status |-> status, CType |-> ctype, Headers |-> <<>>, Body |-> body]

StatusText(status) ==
    CASE status = 200 -> "OK"
      [] status = 201 -> "Created"
      [] status = 400 -> "Bad Request"
      [] status = 404 -> "Not Found"
      [] status = 405 -> "Method Not Allowed"
      [] status = 422 -> "Unprocessable Entity"
      [] status = 500 -> "Internal Server Error"
      [] OTHER -> ""

ReservedHeaders == {"content-encoding", "content-length", "content-type"}

\* Res.String(enc): the bytes written, kept as their parts: the status line,
\* the header lines in the order written, and the body bytes after the blank
\* line. The value of content-length is the number that %d prints.
ResString(r, enc) ==
    [status |-> r.Status,
     reason |-> StatusText(r.Status),
     headers |->
        SelectSeq(r.Headers, LAMBDA kv : kv[1] \notin ReservedHeaders)
        \o << <<"content-length", Len(r.Body)>> >>
        \o (IF r.CType # "" THEN << <<"content-type", r.CType>> >> ELSE <<>>)
        \o (IF enc THEN << <<"content-encoding", "gzip">> >> ELSE <<>>),
     body |-> r.Body]

ErrRes(err, status) == NewRes(status, "text/plain", err)

\* ------------------------------------------------------- the file system

\* The --directory flag: unset, relative, absolute
DirUnset == <<>>
DirRelative == <<"d">>
DirRoot == <<"/", "s">>
Directories == {DirUnset, DirRelative, DirRoot}

\* The directories that exist, and a file no one may open
Dirs == {<<"/">>, DirRoot}
Locked == {<<"/", "s", "/", "k">>}

InitFiles ==
    (<<"/", "x">> :> <<"s", "e", "c">>) @@ (<<"/", "s", "/", "k">> :> <<"k">>)

\* Whether a proper ancestor of p is a regular file
UnderFile(fs, p) ==
    \E i \in 2..Len(p) : p[i] = "/" /\ SubSeq(p, 1, i - 1) \in DOMAIN fs

ParentDir(p) ==
    LET slashes == {i \in 1..Len(p) : p[i] = "/"}
        last == CHOOSE i \in slashes : \A j \in slashes : j <= i
    IN IF slashes = {} THEN <<".">>
       ELSE IF last = 1 THEN <<"/">> ELSE SubSeq(p, 1, last - 1)

ENOENT == <<"n","o"," ","s","u","c","h"," ","f","i","l","e"," ","o","r"," ","d","i","r","e","c","t","o","r","y">>
ENOTDIR == <<"n","o","t"," ","a"," ","d","i","r","e","c","t","o","r","y">>
EISDIR == <<"i","s"," ","a"," ","d","i","r","e","c","t","o","r","y">>
EACCES == <<"p","e","r","m","i","s","s","i","o","n"," ","d","e","n","i","e","d">>

\* (*PathError).Error(): op + " " + path + ": " + the errno's text
PathError(op, p, errno) == op \o <<SP>> \o p \o <<":", SP>> \o errno

\* os.Stat(p): err is "" on success
Stat(fs, p) ==
    IF p \in Dirs THEN [err |-> <<>>, isDir |-> TRUE]
    ELSE IF p \in DOMAIN fs THEN [err |-> <<>>, isDir |-> FALSE]
    ELSE IF UnderFile(fs, p) THEN [err |-> ENOTDIR, isDir |-> FALSE]
    ELSE [err |-> ENOENT, isDir |-> FALSE]

\* os.ReadFile(p) of an existing regular file
ReadFile(fs, p) ==
    IF p \in Locked THEN [err |-> EACCES, data |-> <<>>]
    ELSE [err |-> <<>>, data |-> fs[p]]

\* os.WriteFile(p, content, 0600): create or truncate, then write
WriteFile(fs, p, content) ==
    IF p \in Dirs THEN [err |-> EISDIR, fs |-> fs]
    ELSE IF UnderFile(fs, p) THEN [err |-> ENOTDIR, fs |-> fs]
    ELSE IF ParentDir(p) \notin Dirs THEN [err |-> ENOENT, fs |-> fs]
    ELSE IF p \in Locked THEN [err |-> EACCES, fs |-> fs]
    ELSE [err |-> <<>>, fs |-> (p :> content) @@ fs]

OpStat == <<"s","t","a","t">>
OpOpen == <<"o","p","e","n">>

\* handleSendFile: the response, the file system is only read
handleSendFile(fs, p) ==
    LET st == Stat(fs, p)
        rd == ReadFile(fs, p)
    IN IF st.err # <<>>
       THEN IF st.err = ENOENT THEN NewRes(404, "", <<>>)
            ELSE ErrRes(PathError(OpStat, p, st.err), 500)
       ELSE IF st.isDir THEN NewRes(404, "", <<>>)
       ELSE IF rd.err # <<>> THEN ErrRes(PathError(OpOpen, p, rd.err), 500)
       ELSE NewRes(200, "application/octet-stream", rd.data)

\* handleCreateFile: the response and the file system after it
handleCreateFile(fs, p, content) ==
    LET wr == WriteFile(fs, p, content)
    IN IF wr.err # <<>>
       THEN [res |-> ErrRes(PathError(OpOpen, p, wr.err), 500), fs |-> fs]
       ELSE [res |-> NewRes(201, "", <<>>), fs |-> wr.fs]

\* ------------------------------------------------------------ the clients

MaxConns == 2
BufSize == 1024

GET == <<"G","E","T">>
POST == <<"P","O","S","T">>
DELETE == <<"D","E","L","E","T","E">>
HTTP10 == <<"H","T","T","P","/","1",".","0">>
XHTTP11 == <<"X">> \o HTTP11

UserAgentLine == <<"U","s","e","r","-","A","g","e","n","t",":"," ","F","o","o">>
GzipLine == <<"A","c","c","e","p","t","-","E","n","c","o","d","i","n","g",":"," ","g","z","i","p">>

\* What a client sends: the start line's tokens (written with one space
\* between them), the header lines, whether the blank line follows the head,
\* and the body after it. reset: the client resets the connection instead.
Sent(line, hdrs, sep, body) ==
    [reset |-> FALSE, line |-> line, hdrs |-> hdrs, sep |-> sep, body |-> body]

ResetSent == [reset |-> TRUE, line |-> <<>>, hdrs |-> <<>>, sep |-> FALSE, body |-> <<>>]

Line(method, target) == <<method, target, HTTP11>>

PathRoot == <<"/">>
PathUserAgent == <<"/","u","s","e","r","-","a","g","e","n","t">>
PathEcho == <<"/","e","c","h","o","/","a","b">>
PathNope == <<"/","n","o","p","e">>
FilesPrefix == <<"/","f","i","l","e","s","/">>
EchoPrefix == <<"/","e","c","h","o","/">>
PathFileF == FilesPrefix \o <<"f">>
PathFileK == FilesPrefix \o <<"k">>
PathFileUnderF == FilesPrefix \o <<"f", "/", "y">>
PathFileUp == FilesPrefix \o <<".", ".", "/", "x">>

BodyHi == <<"h", "i">>
BodyNul == <<"a", NUL, "b">>
BodyBlank == <<"a">> \o CRLFCRLF \o <<"b">>

UA == <<UserAgentLine>>
GZ == <<GzipLine>>

Requests ==
    { Sent(Line(GET, PathRoot), UA, TRUE, <<>>),
      Sent(Line(GET, PathRoot), <<>>, TRUE, <<>>),
      Sent(Line(GET, PathRoot), UA, FALSE, <<>>),
      Sent(Line(GET, PathUserAgent), UA, TRUE, <<>>),
      Sent(Line(GET, PathEcho), UA, TRUE, <<>>),
      Sent(Line(GET, PathEcho), GZ, TRUE, <<>>),
      Sent(Line(GET, PathNope), UA, TRUE, <<>>),
      Sent(Line(GET, PathFileF), UA, TRUE, <<>>),
      Sent(Line(GET, PathFileF), GZ, TRUE, <<>>),
      Sent(Line(POST, PathFileF), UA, TRUE, BodyHi),
      Sent(Line(POST, PathFileF), UA, TRUE, BodyNul),
      Sent(Line(POST, PathFileF), UA, TRUE, BodyBlank),
      Sent(Line(DELETE, PathFileF), UA, TRUE, <<>>),
      Sent(Line(GET, PathFileK), UA, TRUE, <<>>),
      Sent(Line(POST, PathFileK), UA, TRUE, BodyHi),
      Sent(Line(GET, PathFileUnderF), UA, TRUE, <<>>),
      Sent(Line(GET, FilesPrefix), UA, TRUE, <<>>),
      Sent(Line(GET, PathFileUp), UA, TRUE, <<>>),
      Sent(Line(POST, PathFileUp), UA, TRUE, BodyHi),
      Sent(<<GET, PathRoot, HTTP10>>, UA, TRUE, <<>>),
      Sent(<<GET, PathRoot, XHTTP11>>, UA, TRUE, <<>>),
      Sent(<<GET, PathRoot>>, UA, TRUE, <<>>),
      Sent(<<GET, HTTP11>>, UA, TRUE, <<>>),
      Sent(<<HTTP11>>, UA, TRUE, <<>>),
      Sent(<<GET, PathRoot, <<"x">>, HTTP11>>, UA, TRUE, <<>>) }

\* The bytes of a request on the wire
Encode(s) ==
    JoinWith(<<JoinWith(s.line, <<SP>>)>> \o s.hdrs, CRLF)
    \o (IF s.sep THEN CRLFCRLF \o s.body ELSE <<>>)

\* ------------------------------------------------------------- the state

VARIABLES
    directory,   \* the --directory flag, set by init() before main runs
    files,       \* the regular files: path -> content
    conns,       \* per connection: its goroutine's position and locals
    crashed,     \* a goroutine panicked: the Go runtime ended the process
    lastPost     \* history: file name -> body of the last POST answered 201

vars == <<directory, files, conns, crashed, lastPost>>

Conns == 1..MaxConns

NoSent == Sent(<<>>, <<>>, FALSE, <<>>)
NoParse == [kind |-> "none", req |-> NilReq, err |-> <<>>]
ZeroRes == NewRes(0, "", <<>>)

IdleConn ==
    [pc |-> "idle", sent |-> NoSent, reads |-> 0, b |-> <<>>, parse |-> NoParse,
     enc |-> FALSE, p |-> <<>>, res |-> ZeroRes, out |-> <<>>, fault |-> "",
     closed |-> FALSE]

Init ==
    /\ directory \in Directories
    /\ files = InitFiles
    /\ conns = [c \in Conns |-> IdleConn]
    /\ crashed = FALSE
    /\ lastPost = NoHeaders

\* ------------------------------------------------------- handleConnection

\* b := make([]byte, 1024); conn.Read(b); for i, v := range b { if v == 0
\* { b = b[:i]; break } }: b holds the first 1024 bytes sent and zeros after
\* them, and is cut at its first zero byte, which is the first NUL sent or,
\* with fewer than 1024 bytes sent, the first byte of the padding
ReadBuffer(raw) ==
    LET n == IF Len(raw) < BufSize THEN Len(raw) ELSE BufSize
        zeros == {i \in 1..n : raw[i] = NUL}
    IN IF zeros = {} THEN SubSeq(raw, 1, n)
       ELSE SubSeq(raw, 1, (CHOOSE i \in zeros : \A j \in zeros : i <= j) - 1)

AcceptEncodingKey == <<"a","c","c","e","p","t","-","e","n","c","o","d","i","n","g">>
UserAgentKey == <<"u","s","e","r","-","a","g","e","n","t">>
GzipToken == <<"g","z","i","p">>
TextPlain == "text/plain"

\* Whether using req dereferences a nil pointer
IsNilNever(req) == FALSE

IsNil(req) == req.nil

Routed(res, enc, fs, p) ==
    [kind |-> "ok", res |-> res, enc |-> enc, fs |-> fs, p |-> p, fault |-> ""]

Panicked(text, enc, fs) ==
    [kind |-> "panic", res |-> ZeroRes, enc |-> enc, fs |-> fs, p |-> <<>>,
     fault |-> text]

\* handleConnection from enc := ... to its end: the response it builds, the
\* file system after it, the local p, or the panic that ends it
Route(req, dir, fs) ==
    LET enc == Contains(HeaderGet(req.Headers, AcceptEncodingKey), GzipToken)
        echo == CutPrefix(req.Path, EchoPrefix)
        fileq == CutPrefix(req.Path, FilesPrefix)
        p == PathJoin(dir, fileq.rest)
        created == handleCreateFile(fs, p, req.Body)
    IN IF IsNil(req) THEN Panicked(PanicNil, FALSE, fs)
       ELSE IF req.Path = PathRoot THEN Routed(NewRes(200, "", <<>>), enc, fs, <<>>)
       ELSE IF req.Path = PathUserAgent
       THEN Routed(NewRes(200, TextPlain, HeaderGet(req.Headers, UserAgentKey)),
                   enc, fs, <<>>)
       ELSE IF echo.ok THEN Routed(NewRes(200, TextPlain, echo.rest), enc, fs, <<>>)
       ELSE IF fileq.ok /\ dir = <<>> THEN Panicked(PanicIndex, enc, fs)
       ELSE IF fileq.ok /\ dir[1] = "/"
       THEN IF req.Method = GET THEN Routed(handleSendFile(fs, p), enc, fs, p)
            ELSE IF req.Method = POST THEN Routed(created.res, enc, created.fs, p)
            ELSE Routed(NewRes(405, "", <<>>), enc, fs, p)
       ELSE Routed(NewRes(404, "", <<>>), enc, fs, <<>>)

\* main: server.Accept() returns the next connection; go handleConnection
Accept(c) ==
    /\ ~crashed
    /\ conns[c].pc = "idle"
    /\ \A d \in Conns : d < c => conns[d].pc # "idle"
    /\ conns' = [conns EXCEPT ![c] = [@ EXCEPT !.pc = "accepted"]]
    /\ UNCHANGED <<directory, files, crashed, lastPost>>

\* conn.Read(b) fails (the client reset the connection): the error is
\* printed and the handler returns
ReadFail(c) ==
    /\ ~crashed
    /\ conns[c].pc = "accepted"
    /\ conns' = [conns EXCEPT ![c] =
                    [@ EXCEPT !.pc = "done", !.sent = ResetSent, !.reads = @ + 1,
                              !.closed = TRUE]]
    /\ UNCHANGED <<directory, files, crashed, lastPost>>

\* What handleConnection computes from each request up to its first write:
\* b after the read, and parseRequest(b) (a table of the two, by request)
Received ==
    [s \in Requests |->
        LET b == ReadBuffer(Encode(s))
        IN [b |-> b, r |-> parseRequest(b)]]

\* conn.Read(b) reads what the client sent, s; req, err := parseRequest(b);
\* on an error the 422 response is written and the handler goes on (there is
\* no return); a panic of the parser ends the process
ReadAndParse(c, s) ==
    LET b == Received[s].b
        r == Received[s].r
    IN /\ ~crashed
       /\ conns[c].pc = "accepted"
       /\ conns' = [conns EXCEPT ![c] =
            [@ EXCEPT !.pc = IF r.kind = "panic" THEN "panicked" ELSE "parsed",
                      !.sent = s,
                      !.reads = @ + 1,
                      !.b = b,
                      !.parse = r,
                      !.out = IF r.kind = "err"
                              THEN Append(@, ResString(ErrRes(r.err, 422), FALSE))
                              ELSE @,
                      !.fault = IF r.kind = "panic" THEN PanicIndex ELSE "",
                      !.closed = (r.kind = "panic")]]
       /\ crashed' = (r.kind = "panic")
       /\ UNCHANGED <<directory, files, lastPost>>

\* The POST that the client of c sent for a file name, answered 201
PostedName(c, status) ==
    LET s == conns[c].sent
    IN IF /\ Len(s.line) >= 2
          /\ s.line[1] = POST
          /\ HasPrefix(s.line[2], FilesPrefix)
          /\ status = 201
       THEN (CutPrefix(s.line[2], FilesPrefix).rest :> s.body)
       ELSE NoHeaders

\* The rest of handleConnection: enc, the route, the one conn.Write, and the
\* deferred conn.Close()
Dispatch(c) ==
    LET r == Route(conns[c].parse.req, directory, files)
    IN /\ ~crashed
       /\ conns[c].pc = "parsed"
       /\ IF r.kind = "panic"
          THEN /\ conns' = [conns EXCEPT ![c] =
                             [@ EXCEPT !.pc = "panicked", !.fault = r.fault,
                                       !.enc = r.enc, !.closed = TRUE]]
               /\ crashed' = TRUE
               /\ UNCHANGED <<files, lastPost>>
          ELSE /\ conns' = [conns EXCEPT ![c] =
                             [@ EXCEPT !.pc = "done", !.enc = r.enc, !.p = r.p,
                                       !.res = r.res,
                                       !.out = Append(@, ResString(r.res, r.enc)),
                                       !.closed = TRUE]]
               /\ files' = r.fs
               /\ lastPost' = PostedName(c, r.res.Status) @@ lastPost
               /\ crashed' = FALSE
       /\ UNCHANGED directory

Next ==
    \E c \in Conns :
        \/ Accept(c)
        \/ ReadFail(c)
        \/ \E s \in Requests : ReadAndParse(c, s)
        \/ Dispatch(c)

Spec == Init /\ [][Next]_vars

\* ------------------------------------------------------------ the claims

\* parseRequest has been applied to what the client of c sent
Parsed(c) ==
    conns[c].pc \in {"parsed", "done", "panicked"} /\ ~conns[c].sent.reset

\* The handler of c has ended, by returning or by a panic
Ended(c) == conns[c].pc \in {"done", "panicked"}

ContentLength(w) ==
    LET at == {i \in 1..Len(w.headers) : w.headers[i][1] = "content-length"}
    IN {w.headers[i][2] : i \in at}

HasHeader(w, name, value) ==
    \E i \in 1..Len(w.headers) : w.headers[i] = <<name, value>>

\* C1: a connection whose bytes parseRequest rejects gets the 422 response
\* with the error text as its body, and its handler does not panic (a panic
\* of a goroutine ends the process, the accept loop and every other handler)
C1_ParseFailureNotFatal ==
    \A c \in Conns :
        (Parsed(c) /\ conns[c].parse.kind = "err") =>
            /\ conns[c].pc # "panicked"
            /\ ~crashed
            /\ Len(conns[c].out) = 1
            /\ conns[c].out[1].status = 422
            /\ conns[c].out[1].body = conns[c].parse.err

\* A gzip member (RFC 1952): the 10-byte header, the deflate stream (here one
\* stored block: 5 bytes and the data), the CRC-32 and the length, 4 bytes
\* each. Every encoding has the header and the trailer, whatever the deflate
\* stream is.
GzipEncoding(body) ==
    <<"1f", "8b", "08", "00", "00", "00", "00", "00", "00", "ff">>
    \o <<"01", "len", "len", "nlen", "nlen">> \o body
    \o <<"crc", "crc", "crc", "crc", "isize", "isize", "isize", "isize">>

\* C2: a response rendered with gzip requested carries the gzip encoding of
\* the handler's body, the header content-encoding: gzip, and a
\* content-length equal to the length of the encoded body
C2_GzipBodyAndLength ==
    \A c \in Conns :
        (conns[c].pc = "done" /\ conns[c].enc) =>
            LET w == conns[c].out[Len(conns[c].out)]
                z == GzipEncoding(conns[c].res.Body)
            IN /\ w.body = z
               /\ HasHeader(w, "content-encoding", "gzip")
               /\ ContentLength(w) = {Len(z)}

\* A file name: one path element, not "." or ".."
PlainName(f) ==
    /\ f # <<>>
    /\ \A i \in 1..Len(f) : f[i] # "/"
    /\ f \notin {<<".">>, <<".", ".">>}

\* The step in which the handler of c ends
Ending(c) == ~Ended(c) /\ conns'[c].pc \in {"done", "panicked"}

\* C3: with an absolute directory, a POST /files/f carrying B is answered 201
\* and leaves exactly B in <directory>/f, and a GET /files/f after it, with no
\* POST to f in between, is answered 200 with body B
C3_PostThenGet ==
    [][\A c \in Conns :
        (Ending(c) /\ directory = DirRoot /\ Len(conns'[c].sent.line) = 3) =>
           LET t == conns'[c]
               f == CutPrefix(t.sent.line[2], FilesPrefix).rest
               path == directory \o <<"/">> \o f
               ok(method) ==
                   /\ ~t.sent.reset
                   /\ t.sent.sep
                   /\ t.sent.line = Line(method, FilesPrefix \o f)
                   /\ PlainName(f)
                   /\ path \notin Locked
           IN /\ ok(POST) =>
                   /\ t.pc = "done"
                   /\ t.out[Len(t.out)].status = 201
                   /\ path \in DOMAIN files'
                   /\ files'[path] = t.sent.body
              /\ (ok(GET) /\ f \in DOMAIN lastPost) =>
                   /\ t.pc = "done"
                   /\ t.out[Len(t.out)].status = 200
                   /\ t.out[Len(t.out)].body = lastPost[f]
      ]_vars

\* C4: with --directory unset or not absolute, a request whose path starts
\* with /files/ is answered 404 whatever its method, without entering the
\* files route and without a fault
C4_FilesRouteDisabled ==
    \A c \in Conns :
        ( /\ directory = <<>> \/ directory[1] # "/"
          /\ Ended(c)
          /\ conns[c].parse.kind = "ok"
          /\ HasPrefix(conns[c].parse.req.Path, FilesPrefix) ) =>
            /\ conns[c].pc = "done"
            /\ conns[c].p = <<>>
            /\ Len(conns[c].out) = 1
            /\ conns[c].out[1].status = 404

\* C5: a start line whose third token is not exactly HTTP/1.1 makes
\* parseRequest fail with "Only HTTP/1.1 is supported" and return no Request
C5_ProtocolMismatchFails ==
    \A c \in Conns :
        ( /\ Parsed(c)
          /\ Len(conns[c].sent.line) >= 3
          /\ conns[c].sent.line[3] # HTTP11 ) =>
            /\ conns[c].parse.kind = "err"
            /\ conns[c].parse.err = ErrOnlyHTTP11
            /\ conns[c].parse.req.nil

\* C6: a buffer "<M> <T> HTTP/1.1", any header block (also none) and the
\* blank line parses to a Request with Method = M and Path = T
C6_MethodAndTargetExtracted ==
    \A c \in Conns :
        LET s == conns[c].sent
        IN ( /\ Parsed(c)
             /\ Len(s.line) = 3
             /\ s.line[1] # <<>> /\ s.line[2] # <<>> /\ s.line[3] = HTTP11
             /\ s.sep ) =>
               /\ conns[c].parse.kind = "ok"
               /\ conns[c].parse.req.Method = s.line[1]
               /\ conns[c].parse.req.Path = s.line[2]

\* Whether p is the directory root or lies below it
Inside(root, p) == p = root \/ HasPrefix(p, root \o <<"/">>)

\* C7: the path a GET reads or a POST writes for /files/<rest> stays inside
\* the serving directory, also for <rest> with ".." elements
C7_PathStaysInsideRoot ==
    \A c \in Conns :
        ( /\ conns[c].pc = "done"
          /\ conns[c].p # <<>>
          /\ conns[c].parse.req.Method \in {GET, POST} ) =>
            Inside(directory, conns[c].p)

\* C8: a buffer without CRLF CRLF whose start line is well formed parses to
\* a Request with an empty body, without a fault
C8_NoSeparatorEmptyBody ==
    \A c \in Conns :
        LET s == conns[c].sent
        IN ( /\ Parsed(c)
             /\ ~Contains(conns[c].b, CRLFCRLF)
             /\ Len(s.line) = 3
             /\ s.line[1] # <<>> /\ s.line[2] # <<>> /\ s.line[3] = HTTP11 ) =>
               /\ conns[c].parse.kind = "ok"
               /\ conns[c].parse.req.Body = <<>>

\* C9: a start line of fewer or more than three tokens is a parse failure,
\* answered 422; it is never accepted as a Request and never faults the parser
C9_WrongTokenCountFails ==
    \A c \in Conns :
        ( /\ Parsed(c)
          /\ Len(conns[c].sent.line) # 3 ) =>
            /\ conns[c].parse.kind = "err"
            /\ Len(conns[c].out) >= 1
            /\ conns[c].out[1].status = 422

\* C10: a handler reads its connection exactly once and writes at most one
\* response to it, on every path: read failure, parse failure, every route
\* and every outcome of the file handlers
C10_OneReadAtMostOneWrite ==
    \A c \in Conns :
        /\ conns[c].reads <= 1
        /\ Len(conns[c].out) <= 1
        /\ conns[c].pc \in {"parsed", "done", "panicked"} => conns[c].reads = 1
        /\ conns[c].pc \in {"idle", "accepted"} =>
              conns[c].reads = 0 /\ conns[c].out = <<>>

\* One handler answered a request for a file and returned, another wrote the
\* 422 response of a parse failure and ended
C10_Witness ==
    \E c, d \in Conns :
        /\ conns[c].pc = "done"
        /\ conns[c].p # <<>>
        /\ conns[c].reads = 1
        /\ Len(conns[c].out) = 1
        /\ conns[d].pc = "panicked"
        /\ conns[d].parse.kind = "err"
        /\ conns[d].reads = 1
        /\ Len(conns[d].out) = 1

====
